---------------------------- MODULE Spec2Model ----------------------------
(***************************************************************************)
(* Model of the IP geolocation range-lookup service                        *)
(* (src/api/src/lib/database.ts and its HTTP callers).                     *)
(*                                                                         *)
(* Text is a sequence of one-character strings.  A JavaScript Number that  *)
(* the code produces fits in 32 bits and is an Int here; a BigInt is a     *)
(* sequence of base-10000 limbs, least significant first.                  *)
(***************************************************************************)
EXTENDS Integers, Sequences, FiniteSets, TLC

VARIABLES
    src,        \* codec harness: the addresses the texts were written from
    arg,        \* codec harness: the address texts handed to ipToPaddedDecimal
    ret,        \* codec harness: what each call gave (None before the call)
    store,      \* the rows of table ip2location_db11_ipv6
    qkey,       \* query harness: the key bound to both parameters of the query
    rows,       \* query harness: the rows the query gave (None before it ran)
    client,     \* database.ts: the module-level client (null until created)
    created,    \* how many times createClient ran
    call,       \* the lookupIP / lookupIPs call in progress and its arguments
    tasks,      \* the promise of each lookupIP the call started
    settled,    \* the indices of tasks, in the order their promises settled
    outcome,    \* how the call's promise settled (None while it is pending)
    log,        \* the calls that returned to their caller, oldest first
    req,        \* the HTTP request being served (None when there is none)
    handled,    \* the middleware and handlers that ran for the request
    resp        \* the HTTP response (None until it is sent)

vars == <<src, arg, ret, store, qkey, rows, client, created, call, tasks, settled, outcome,
          log, req, handled, resp>>

codecVars == <<src, arg, ret>>
queryVars == <<qkey, rows>>
httpVars == <<req, handled, resp>>
serviceVars == <<client, created, call, tasks, settled, outcome, log, httpVars>>

None == [kind |-> "none"]
NULL == "NULL"               \* SQL NULL in a column
null == [kind |-> "null"]    \* the null lookupIP returns when no row matches

\* F(v), with v evaluated before F is applied (an operator argument is
\* otherwise evaluated where it is first used, deep inside a recursion).
Eager(F(_), v) == LET x == v IN IF x = x THEN F(x) ELSE F(x)

(***************************************************************************)
(* Characters and strings                                                  *)
(***************************************************************************)
DecDigits == <<"0", "1", "2", "3", "4", "5", "6", "7", "8", "9">>

IsDigit(c) == c \in {"0", "1", "2", "3", "4", "5", "6", "7", "8", "9"}

\* The value of a hexadecimal digit, -1 for any other character.
HexVal(c) ==
    CASE c = "0" -> 0 [] c = "1" -> 1 [] c = "2" -> 2 [] c = "3" -> 3
      [] c = "4" -> 4 [] c = "5" -> 5 [] c = "6" -> 6 [] c = "7" -> 7
      [] c = "8" -> 8 [] c = "9" -> 9
      [] c \in {"a", "A"} -> 10 [] c \in {"b", "B"} -> 11
      [] c \in {"c", "C"} -> 12 [] c \in {"d", "D"} -> 13
      [] c \in {"e", "E"} -> 14 [] c \in {"f", "F"} -> 15
      [] OTHER -> -1

IsHex(c) == HexVal(c) >= 0

\* The code unit of a character (strings compare by code unit / byte).
CharCode(c) ==
    CASE c = "-" -> 45 [] c = "." -> 46 [] c = ":" -> 58
      [] IsDigit(c) -> 48 + HexVal(c)
      [] c \in {"A", "B", "C", "D", "E", "F"} -> 55 + HexVal(c)
      [] c \in {"a", "b", "c", "d", "e", "f"} -> 87 + HexVal(c)
      [] c = "i" -> 105 [] c = "n" -> 110 [] c = "o" -> 111
      [] c = "p" -> 112 [] c = "t" -> 116 [] c = "z" -> 122

Repeat(c, n) == [i \in 1..n |-> c]

\* String.prototype.padStart(n, c) with a one-character filler.
PadStart(s, n, c) == IF Len(s) >= n THEN s ELSE Repeat(c, n - Len(s)) \o s

\* Does sep occur in s at position i (1-based)?
OccursAt(s, sep, i) ==
    /\ i + Len(sep) - 1 <= Len(s)
    /\ \A j \in 1..Len(sep) : s[i + j - 1] = sep[j]

\* String.prototype.includes(sep)
Includes(s, sep) == \E i \in 1..Len(s) : OccursAt(s, sep, i)

\* String.prototype.split(sep), sep a non-empty string: the pieces between
\* the non-overlapping occurrences of sep, found left to right.
RECURSIVE Split(_, _)
Split(s, sep) ==
    IF ~Includes(s, sep) THEN <<s>>
    ELSE LET i == CHOOSE k \in 1..Len(s) :
                      /\ OccursAt(s, sep, k)
                      /\ \A j \in 1..(k - 1) : ~OccursAt(s, sep, j)
         IN  <<SubSeq(s, 1, i - 1)>> \o Split(SubSeq(s, i + Len(sep), Len(s)), sep)

\* Array.prototype.join(sep)
RECURSIVE Join(_, _)
Join(parts, sep) ==
    IF Len(parts) = 0 THEN <<>>
    ELSE IF Len(parts) = 1 THEN parts[1]
    ELSE parts[1] \o sep \o Join(Tail(parts), sep)

\* Byte-wise comparison of two strings: -1, 0 or 1 (a proper prefix is smaller).
StrCmp(a, b) ==
    LET n == IF Len(a) < Len(b) THEN Len(a) ELSE Len(b)
        diff == {i \in 1..n : a[i] # b[i]}
    IN  IF diff = {}
        THEN (IF Len(a) < Len(b) THEN -1 ELSE IF Len(a) > Len(b) THEN 1 ELSE 0)
        ELSE LET i == CHOOSE k \in diff : \A j \in diff : k <= j
             IN  IF CharCode(a[i]) < CharCode(b[i]) THEN -1 ELSE 1

StrLeq(a, b) == StrCmp(a, b) <= 0
StrLess(a, b) == StrCmp(a, b) < 0

(***************************************************************************)
(* Numbers                                                                 *)
(***************************************************************************)
Pow2(n) == 2 ^ n

\* Number(s) for a string of 1..3 decimal digits (the only strings the code
\* converts: both conversions follow a successful ipv4Regex test).
RECURSIVE ToNumber(_)
ToNumber(s) ==
    IF Len(s) = 0 THEN 0
    ELSE 10 * ToNumber(SubSeq(s, 1, Len(s) - 1)) + HexVal(s[Len(s)])

\* The Number a string of at most 7 hexadecimal digits writes.
RECURSIVE ToNumber16(_)
ToNumber16(s) ==
    IF Len(s) = 0 THEN 0
    ELSE 16 * ToNumber16(SubSeq(s, 1, Len(s) - 1)) + HexVal(s[Len(s)])

\* x << n on a Number: the low 32 bits of x * 2^n read as a signed integer
\* (x >= 0, 1 <= n <= 31).
Shl(x, n) ==
    LET m == x % Pow2(32 - n)
    IN  IF m >= Pow2(31 - n) THEN (m - Pow2(32 - n)) * Pow2(n) ELSE m * Pow2(n)

\* The decimal digits of |n|, most significant first.
RECURSIVE AbsDigits(_)
AbsDigits(n) ==
    IF n >= 0
    THEN IF n < 10 THEN <<DecDigits[n + 1]>>
         ELSE AbsDigits(n \div 10) \o <<DecDigits[(n % 10) + 1]>>
    ELSE LET d == (10 - (n % 10)) % 10
             rest == (n + d) \div 10
         IN  IF rest = 0 THEN <<DecDigits[d + 1]>>
             ELSE AbsDigits(rest) \o <<DecDigits[d + 1]>>

\* Number.prototype.toString() of an integer.
NumberToString(n) == IF n < 0 THEN <<"-">> \o AbsDigits(n) ELSE AbsDigits(n)

(***************************************************************************)
(* BigInt: limbs in base 10000, least significant first, no leading zero   *)
(* limb (<<0>> is zero).  Every intermediate product stays below 2^31.     *)
(***************************************************************************)
LimbBase == 10000
LimbDigits == 4

BigZero == <<0>>

\* The limbs without the zero limbs at the most significant end.
Normalize(ls) ==
    LET nz == {i \in 1..Len(ls) : ls[i] # 0}
    IN  IF nz = {} THEN BigZero
        ELSE SubSeq(ls, 1, CHOOSE i \in nz : \A j \in nz : j <= i)

\* big * m + carry for Numbers 0 <= m <= 65536 and carry >= 0.
RECURSIVE MulAddCarry(_, _, _)
MulAddCarry(ls, m, carry) ==
    IF Len(ls) = 0
    THEN IF carry = 0 THEN <<>>
         ELSE <<carry % LimbBase>> \o MulAddCarry(<<>>, m, carry \div LimbBase)
    ELSE LET v == ls[1] * m + carry
         IN  <<v % LimbBase>> \o MulAddCarry(Tail(ls), m, v \div LimbBase)

BigMulAdd(big, m, a) == Normalize(MulAddCarry(big, m, a))

\* BigInt(n) for a non-negative Number
BigOfNat(n) == BigMulAdd(BigZero, 1, n)

RECURSIVE AddCarry(_, _, _)
AddCarry(a, b, carry) ==
    IF Len(a) = 0 /\ Len(b) = 0
    THEN IF carry = 0 THEN <<>> ELSE <<carry>>
    ELSE LET x == IF Len(a) = 0 THEN 0 ELSE a[1]
             y == IF Len(b) = 0 THEN 0 ELSE b[1]
             v == x + y + carry
             ra == IF Len(a) = 0 THEN <<>> ELSE Tail(a)
             rb == IF Len(b) = 0 THEN <<>> ELSE Tail(b)
         IN  <<v % LimbBase>> \o AddCarry(ra, rb, v \div LimbBase)

BigAdd(a, b) == Normalize(AddCarry(a, b, 0))

\* Numeric comparison of two BigInts: -1, 0 or 1.
BigCmp(a, b) ==
    LET x == Normalize(a)
        y == Normalize(b)
        diff == {i \in 1..Len(x) : Len(x) = Len(y) /\ x[i] # y[i]}
    IN  IF Len(x) < Len(y) THEN -1
        ELSE IF Len(x) > Len(y) THEN 1
        ELSE IF diff = {} THEN 0
        ELSE LET i == CHOOSE k \in diff : \A j \in diff : j <= k
             IN  IF x[i] < y[i] THEN -1 ELSE 1

BigLess(a, b) == BigCmp(a, b) < 0
BigLeq(a, b) == BigCmp(a, b) <= 0

\* BigInt.prototype.toString(): the digits of the top limb, then four digits
\* for every lower limb.
BigToString(big) ==
    LET n == Len(big)
        top == AbsDigits(big[n])
        digit(q) == (big[n - 1 - (q \div LimbDigits)] \div 10 ^ (LimbDigits - 1 - (q % LimbDigits))) % 10
    IN  [p \in 1..(Len(top) + LimbDigits * (n - 1)) |->
            IF p <= Len(top) THEN top[p] ELSE DecDigits[digit(p - Len(top) - 1) + 1]]

\* The BigInt written by the digits s[i..] of the given radix, after the
\* digits before i gave acc.
RECURSIVE DigitsToBig(_, _, _, _)
DigitsToBig(s, radix, i, acc) ==
    IF i > Len(s) THEN acc
    ELSE LET Rest(r) == DigitsToBig(s, radix, i + 1, r)
         IN  Eager(Rest, BigMulAdd(acc, radix, HexVal(s[i])))

(***************************************************************************)
(* The address codec (database.ts)                                         *)
(***************************************************************************)
KeyWidth == 39
MaxOctet == 255
GroupBase == 65536

Return(v) == [kind |-> "return", val |-> v]
Throw(n, m) == [kind |-> "throw", name |-> n, message |-> m]

\* /^(\d{1,3}\.){3}\d{1,3}$/.test(ip)
ipv4Regex(ip) ==
    LET fields == Split(ip, <<".">>)
    IN  /\ Len(fields) = 4
        /\ \A i \in 1..4 :
              /\ Len(fields[i]) \in 1..3
              /\ \A j \in 1..Len(fields[i]) : IsDigit(fields[i][j])

\* ip.split('.').map(Number)
OctetsOf(ip) ==
    LET fields == Split(ip, <<".">>)
    IN  [i \in 1..Len(fields) |-> ToNumber(fields[i])]

isIPv4(ip) ==
    IF ~ipv4Regex(ip) THEN FALSE
    ELSE LET parts == OctetsOf(ip)
         IN  /\ Len(parts) = 4
             /\ \A i \in 1..Len(parts) : parts[i] >= 0 /\ parts[i] <= MaxOctet

\* /^([0-9a-fA-F]{1,4}:){7}[0-9a-fA-F]{1,4}$|^::1$|^::$/.test(ip)
ipv6Regex(ip) ==
    \/ LET groups == Split(ip, <<":">>)
       IN  /\ Len(groups) = 8
           /\ \A i \in 1..8 :
                 /\ Len(groups[i]) \in 1..4
                 /\ \A j \in 1..Len(groups[i]) : IsHex(groups[i][j])
    \/ ip = <<":", ":", "1">>
    \/ ip = <<":", ":">>

isIPv6(ip) == ipv6Regex(ip) \/ Includes(ip, <<":">>)

\* normalizeIPv6: the expanded text, or the RangeError of Array(n) for n < 0.
normalizeIPv6(ip) ==
    IF Includes(ip, <<":", ":">>)
    THEN LET parts == Split(ip, <<":", ":">>)
             leftParts == IF parts[1] # <<>> THEN Split(parts[1], <<":">>) ELSE <<>>
             rightParts == IF parts[2] # <<>> THEN Split(parts[2], <<":">>) ELSE <<>>
             missingZeros == 8 - Len(leftParts) - Len(rightParts)
         IN  IF missingZeros < 0
             THEN Throw("RangeError", "Invalid array length")
             ELSE LET zeros == [i \in 1..missingZeros |-> <<"0", "0", "0", "0">>]
                  IN  Return(Join(leftParts \o zeros \o rightParts, <<":">>))
    ELSE LET parts == Split(ip, <<":">>)
         IN  Return(Join([i \in 1..Len(parts) |-> PadStart(parts[i], 4, "0")], <<":">>))

\* Does BigInt('0x' + part) parse?
IsHexLiteral(part) == Len(part) > 0 /\ \A j \in 1..Len(part) : IsHex(part[j])

\* BigInt('0x' + part) for a part that parses
HexToBig(part) == DigitsToBig(part, 16, 1, BigZero)

\* result * BigInt(65536) + BigInt('0x' + part)
FoldStep(result, part) == BigAdd(BigMulAdd(result, GroupBase, 0), HexToBig(part))

\* for (const part of parts) result = FoldStep(result, part), from parts[i] on;
\* r is the result so far, or the SyntaxError BigInt threw on a part.
RECURSIVE FoldFrom(_, _, _)
FoldFrom(parts, i, r) ==
    IF i > Len(parts) \/ r.kind = "throw" THEN r
    ELSE FoldFrom(parts, i + 1,
                  IF IsHexLiteral(parts[i]) THEN Return(FoldStep(r.val, parts[i]))
                  ELSE Throw("SyntaxError", "Cannot convert to a BigInt"))

ipv6ToDecimal(ip) ==
    IF ip = <<":", ":", "1">>
    THEN Return(<<3359, 8174, 4706, 281>>)      \* BigInt('281470681743359')
    ELSE IF ip = <<":", ":">> THEN Return(BigZero)
    ELSE LET normalized == normalizeIPv6(ip)
         IN  IF normalized.kind = "throw" THEN normalized
             ELSE FoldFrom(Split(normalized.val, <<":">>), 1, Return(BigZero))

\* ipToPaddedDecimal with a key of zeros for text of neither family in place
\* of the final throw.
ipToPaddedDecimalLenient(ip) ==
    IF isIPv4(ip)
    THEN LET parts == OctetsOf(ip)
         IN  IF Len(parts) # 4 \/ \E i \in 1..Len(parts) : parts[i] < 0 \/ parts[i] > MaxOctet
             THEN Throw("Error", "Invalid IPv4 address")
             ELSE LET decimal == Shl(parts[1], 24) + Shl(parts[2], 16)
                                 + Shl(parts[3], 8) + parts[4]
                  IN  Return(PadStart(NumberToString(decimal), KeyWidth, "0"))
    ELSE IF isIPv6(ip)
    THEN LET decimal == ipv6ToDecimal(ip)
         IN  IF decimal.kind = "throw" THEN decimal
             ELSE Return(PadStart(BigToString(decimal.val), KeyWidth, "0"))
    ELSE Return(PadStart(<<>>, KeyWidth, "0"))

ipToPaddedDecimal(ip) ==
    IF isIPv4(ip)
    THEN LET parts == OctetsOf(ip)
         IN  IF Len(parts) # 4 \/ \E i \in 1..Len(parts) : parts[i] < 0 \/ parts[i] > MaxOctet
             THEN Throw("Error", "Invalid IPv4 address")
             ELSE LET decimal == Shl(parts[1], 24) + Shl(parts[2], 16)
                                 + Shl(parts[3], 8) + parts[4]
                  IN  Return(PadStart(NumberToString(decimal), KeyWidth, "0"))
    ELSE IF isIPv6(ip)
    THEN LET decimal == ipv6ToDecimal(ip)
         IN  IF decimal.kind = "throw" THEN decimal
             ELSE Return(PadStart(BigToString(decimal.val), KeyWidth, "0"))
    ELSE Throw("Error", "Invalid IP address format")

(***************************************************************************)
(* Inputs: address descriptors and the text a client writes for them       *)
(***************************************************************************)
MaxSide == 2        \* groups written on each side of "::"

OctetSamples == {0, 8, 127, 128, 255}
GroupSamples == {<<"0">>, <<"1">>, <<"f", "f", "f", "f">>}

Addr(fam, quad, left, right, zip, text) ==
    [fam |-> fam, quad |-> quad, left |-> left, right |-> right, zip |-> zip, text |-> text]

V4(q) == Addr("v4", q, <<>>, <<>>, FALSE, <<>>)
V6(l, r, z) == Addr("v6", <<>>, l, r, z, <<>>)
Raw(t) == Addr("raw", <<>>, <<>>, <<>>, FALSE, t)

GroupLists(n) == UNION {[1..k -> GroupSamples] : k \in 0..n}

G1 == <<"1">>
\* 2001:4860:4860::8888, 1:1:1:1::1:1:1:1 and 1:1:1:1:1:1:1::
V6Named ==
    { V6(<<<<"2", "0", "0", "1">>, <<"4", "8", "6", "0">>, <<"4", "8", "6", "0">>>>,
         <<<<"8", "8", "8", "8">>>>, TRUE),
      V6(<<G1, G1, G1, G1>>, <<G1, G1, G1, G1>>, TRUE),
      V6(<<G1, G1, G1, G1, G1, G1, G1>>, <<>>, TRUE) }

V4Addrs == {V4(q) : q \in [1..4 -> OctetSamples]}
V6Zipped == {V6(l, r, TRUE) : l \in GroupLists(MaxSide), r \in GroupLists(MaxSide)} \cup V6Named
V6Full == {V6(a.left, a.right, FALSE) : a \in V6Zipped}
ValidAddrs == V4Addrs \cup V6Zipped \cup V6Full

RawTexts ==
    { <<"n", "o", "t", "-", "a", "n", "-", "i", "p">>,
      <<"2", "5", "6", ".", "1", ".", "1", ".", "1">>,
      <<"1", ".", "2", ".", "3">>,
      <<"1", ".", "2", ".", "3", ".", "4", ".", "5">>,
      <<"1", ":", "2", ":", "3">>,
      <<"z", "z", ":", "z", "z">>,
      <<"1", ":", ":", "2", ":", ":", "3">>,
      <<"1", ":", "1", ":", "1", ":", "1", ":", "1", ":", "1", ":", "1", ":", "1", ":", "1">>,
      <<"1", ":", "1", ":", "1", ":", "1", ":", "1", ":", "1", ":", "1", ":", "1", ":", ":", "1">>,
      <<":", ":", ":">>,
      <<>> }

\* 0:0:0:0:0:0:0:0 and ffff:ffff:ffff:ffff:ffff:ffff:ffff:ffff
V6Full0 == V6(<<>>, <<>>, FALSE)
GF == <<"f", "f", "f", "f">>
V6Max == V6(<<GF, GF, GF, GF>>, <<GF, GF, GF, GF>>, FALSE)

Inputs == ValidAddrs \cup {Raw(t) : t \in RawTexts}

\* The 8 groups an IPv6 descriptor stands for: left ++ zero groups ++ right.
Expand(a) == a.left \o [i \in 1..(8 - Len(a.left) - Len(a.right)) |-> <<"0">>] \o a.right

\* The text of a descriptor.
Text(a) ==
    CASE a.fam = "v4" -> Join([i \in 1..4 |-> NumberToString(a.quad[i])], <<".">>)
      [] a.fam = "v6" /\ a.zip -> Join(a.left, <<":">>) \o <<":", ":">> \o Join(a.right, <<":">>)
      [] a.fam = "v6" /\ ~a.zip -> Join(Expand(a), <<":">>)
      [] OTHER -> a.text

\* The integer a valid address denotes: a*2^24 + b*2^16 + c*2^8 + d, or the
\* base-65536 number of the 8 groups.
RECURSIVE Horner(_, _, _, _)
Horner(ns, base, i, acc) ==
    IF i > Len(ns) THEN acc
    ELSE LET Rest(r) == Horner(ns, base, i + 1, r)
         IN  Eager(Rest, BigMulAdd(acc, base, ns[i]))

Value(a) ==
    IF a.fam = "v4"
    THEN Horner(a.quad, 256, 1, BigZero)
    ELSE LET gs == Expand(a)
         IN  Horner([i \in 1..Len(gs) |-> ToNumber16(gs[i])], GroupBase, 1, BigZero)

\* The canonical key of an integer: its decimal digits, zero-padded to 39.
KeyOf(big) == PadStart(BigToString(big), KeyWidth, "0")

\* let client: Client | null = null
NoClient == null

\* No call was made and no client exists (the state after module load).
NoCall == [op |-> "none", src |-> <<>>, ips |-> <<>>]

ServiceIdle ==
    /\ client = NoClient
    /\ created = 0
    /\ call = NoCall
    /\ tasks = <<>>
    /\ settled = <<>>
    /\ outcome = None
    /\ log = <<>>
    /\ req = None /\ handled = <<>> /\ resp = None

(***************************************************************************)
(* The range store: table ip2location_db11_ipv6 and the lookup query       *)
(***************************************************************************)
MaxRanges == 2      \* rows in the table


\* substr(ZEROS || dec, -39, 39): the last 39 characters of 39 zeros and dec.
EtlPad(dec) ==
    LET t == Repeat("0", KeyWidth) \o dec
    IN  SubSeq(t, Len(t) - KeyWidth + 1, Len(t))

\* The row the import makes of a CSV line with range [from, to] (decimal text)
\* and country code cc ("-" becomes NULL).  Of the eight attribute columns
\* the model keeps country_code.
Row(from, to, cc) ==
    [ ip_from_dec |-> from, ip_to_dec |-> to,
      ip_from_padded |-> EtlPad(from), ip_to_padded |-> EtlPad(to),
      country_code |-> IF cc = "-" THEN NULL ELSE cc ]

\* Range boundaries the tables of the model are cut at:
\* 0.0.0.0, 8.8.8.0, 8.8.8.255, 128.0.0.0 and 255.255.255.255.
StorePoints ==
    << Value(V4(<<0, 0, 0, 0>>)), Value(V4(<<8, 8, 8, 0>>)), Value(V4(<<8, 8, 8, 255>>)),
       Value(V4(<<128, 0, 0, 0>>)), Value(V4(<<255, 255, 255, 255>>)) >>

Ranges ==
    { Row(BigToString(StorePoints[i]), BigToString(StorePoints[j]),
          IF i = 2 THEN "US" ELSE IF i = 1 THEN "-" ELSE "ZZ") :
        i \in 1..Len(StorePoints), j \in 1..Len(StorePoints) } 

\* Numeric comparison of two strings of decimal digits: without their leading
\* zeros the longer is the larger, and equally long ones compare digit by digit.
DecStrip(s) ==
    LET nz == {i \in 1..Len(s) : s[i] # "0"}
    IN  IF nz = {} THEN <<"0">>
        ELSE SubSeq(s, CHOOSE i \in nz : \A j \in nz : i <= j, Len(s))

DecLeq(a, b) ==
    LET x == DecStrip(a)
        y == DecStrip(b)
    IN  Len(x) < Len(y) \/ (Len(x) = Len(y) /\ StrLeq(x, y))

\* A row is a range when its start does not exceed its end.
IsRange(r) == DecLeq(r.ip_from_dec, r.ip_to_dec)

\* Two rows share an address.
Overlap(r, q) == DecLeq(r.ip_from_dec, q.ip_to_dec) /\ DecLeq(q.ip_from_dec, r.ip_to_dec)

\* The tables of the model: at most MaxRanges pairwise non-overlapping ranges.
Stores ==
    { t \in SUBSET {r \in Ranges : IsRange(r)} :
        /\ Cardinality(t) <= MaxRanges
        /\ \A r \in t, q \in t : r # q => ~Overlap(r, q) }

\* The candidate under ORDER BY ip_from_padded ASC: the smallest start not above k.
CandAscending(table, k) ==
    LET below == {r \in table : StrLeq(r.ip_from_padded, k)}
    IN  {r \in below : \A q \in below : StrLeq(r.ip_from_padded, q.ip_from_padded)}

\* WITH cand AS (SELECT * FROM t WHERE ip_from_padded <= ?1
\*               ORDER BY ip_from_padded DESC LIMIT 1)
Cand(table, k) ==
    LET below == {r \in table : StrLeq(r.ip_from_padded, k)}
    IN  {r \in below : \A q \in below : StrLeq(q.ip_from_padded, r.ip_from_padded)}

\* The query with ip_to_padded > ?2: the end of a range is left out.
QueryRowsStrict(table, k) ==
    LET hit == {r \in Cand(table, k) : StrLess(k, r.ip_to_padded)}
    IN  IF hit = {} THEN <<>> ELSE <<CHOOSE r \in hit : TRUE>>

\* SELECT * FROM cand WHERE ip_to_padded >= ?2, both parameters bound to k:
\* the array result.rows (ip_from_padded is the primary key, so cand has at
\* most one row).
QueryRows(table, k) ==
    LET hit == {r \in Cand(table, k) : StrLeq(k, r.ip_to_padded)}
    IN  IF hit = {} THEN <<>> ELSE <<CHOOSE r \in hit : TRUE>>

\* A statement that deletes the candidate row it read.
TableAfterDelete(table, k) == table \ Cand(table, k)

\* The table after db.execute ran the query: the statement is a SELECT, it
\* writes no row.
TableAfterSelect(table, k) == table

(***************************************************************************)
(* Query harness: the lookup query on its own                              *)
(***************************************************************************)
\* Keys at, between and beyond the range boundaries.
QueryKeys ==
    {KeyOf(StorePoints[i]) : i \in 1..Len(StorePoints)}
    \cup {KeyOf(BigAdd(StorePoints[i], BigOfNat(1))) : i \in 1..Len(StorePoints)}
    \cup {KeyOf(Value(V4(<<8, 8, 8, 8>>))), KeyOf(Value(V6Full0)), KeyOf(Value(V6Max))}

InitQuery ==
    /\ store \in Stores
    /\ qkey \in QueryKeys
    /\ rows = None
    /\ src = <<>> /\ arg = <<>> /\ ret = <<>>
    /\ ServiceIdle

RunQuery ==
    /\ rows = None
    /\ rows' = Return(QueryRows(store, qkey))
    /\ store' = TableAfterSelect(store, qkey)
    /\ UNCHANGED <<codecVars, qkey, serviceVars>>

NextQuery == RunQuery

SpecQuery == InitQuery /\ [][NextQuery]_vars

\* The rows a linear scan finds to contain the key.
Containing(table, k) ==
    {r \in table : DecLeq(r.ip_from_padded, k) /\ DecLeq(k, r.ip_to_padded)}

\* C2: on a table of pairwise non-overlapping ranges with 39-digit keys the
\* query returns exactly the range containing the key, and no row when there
\* is none (also when the key is below every start).
C2_QueryIsContainment ==
    rows # None =>
        /\ {rows.val[i] : i \in 1..Len(rows.val)} = Containing(store, qkey)
        /\ Len(rows.val) <= 1
        /\ (\A r \in store : ~DecLeq(r.ip_from_padded, qkey)) => rows.val = <<>>

\* A key strictly inside a range of a two-range table was looked up and found.
C2_Witness ==
    /\ rows # None /\ Cardinality(store) = 2 /\ Len(rows.val) = 1
    /\ rows.val[1].ip_from_padded # qkey /\ rows.val[1].ip_to_padded # qkey

\* A key below every start was looked up.
C2_WitnessBelow ==
    /\ rows # None /\ store # {}
    /\ \A r \in store : ~DecLeq(r.ip_from_padded, qkey)

(***************************************************************************)
(* Codec harness: every call of ipToPaddedDecimal on its own               *)
(***************************************************************************)
InitCodec ==
    \E a \in Inputs :
        /\ src = <<a>>
        /\ arg = <<Text(a)>>
        /\ ret = <<None>>
        /\ store = {} /\ qkey = <<>> /\ rows = None
        /\ ServiceIdle

\* Ordered pairs of addresses, for comparing their keys.
OrderAddrs ==
    {a \in V4Addrs : a.quad[2] = a.quad[3] /\ a.quad[3] = a.quad[4] /\ a.quad[2] \in {0, 255}}
    \cup {a \in V6Zipped \cup V6Full : Len(a.left) + Len(a.right) <= 1}
    \cup {a \in V6Named : Len(a.right) = 1}

InitOrder ==
    \E a \in OrderAddrs, b \in OrderAddrs :
        /\ src = <<a, b>>
        /\ arg = <<Text(a), Text(b)>>
        /\ ret = <<None, None>>
        /\ store = {} /\ qkey = <<>> /\ rows = None
        /\ ServiceIdle

Encode(i) ==
    /\ ret[i] = None
    /\ ret' = [ret EXCEPT ![i] = ipToPaddedDecimal(arg[i])]
    /\ UNCHANGED <<src, arg, store, queryVars, serviceVars>>

NextCodec == \E i \in DOMAIN arg : Encode(i)

SpecCodec == InitCodec /\ [][NextCodec]_vars

SpecOrder == InitOrder /\ [][NextCodec]_vars

(***************************************************************************)
(* Codec properties                                                        *)
(***************************************************************************)
Returned(i) == ret[i].kind = "return"

\* C1: for every IPv4 dotted quad a.b.c.d with octets in 0..255 (first octet
\* 128..255 included) ipToPaddedDecimal returns the decimal digits of
\* a*2^24 + b*2^16 + c*2^8 + d, zero-padded to 39 characters.
C1_IPv4KeyIsValue ==
    \A i \in DOMAIN arg :
        (src[i].fam = "v4" /\ ret[i] # None) => ret[i] = Return(KeyOf(Value(src[i])))

\* C4: whenever ipToPaddedDecimal returns, the string has exactly 39
\* characters and every one of them is a decimal digit.
C4_KeyIs39Digits ==
    \A i \in DOMAIN arg :
        Returned(i) =>
            /\ Len(ret[i].val) = KeyWidth
            /\ \A j \in 1..Len(ret[i].val) : IsDigit(ret[i].val[j])

\* C5: for valid addresses a, b with v(a) < v(b), the key of a is strictly
\* smaller than the key of b in byte-wise string order.
C5_OrderPreserving ==
    (Len(arg) = 2 /\ Returned(1) /\ Returned(2) /\ BigLess(Value(src[1]), Value(src[2])))
        => StrLess(ret[1].val, ret[2].val)

\* C6: "::" encodes value 0 and "::1" encodes value 1, so "::1" and
\* "0:0:0:0:0:0:0:1" get the same key.
C6_FastPathsAgree ==
    /\ \A i \in DOMAIN arg :
          (arg[i] = <<":", ":">> /\ ret[i] # None) => ret[i] = Return(KeyOf(BigZero))
    /\ \A i \in DOMAIN arg :
          (arg[i] = <<":", ":", "1">> /\ ret[i] # None) => ret[i] = Return(KeyOf(BigOfNat(1)))
    /\ (/\ Len(arg) = 2
        /\ arg[1] = <<":", ":", "1">>
        /\ arg[2] = Text(V6(<<>>, <<G1>>, FALSE))
        /\ ret[1] # None /\ ret[2] # None) => ret[1] = ret[2]

\* C7: a text with one "::" between group lists L and R gets the key of the
\* fully written address L ++ (8 - |L| - |R|) zero groups ++ R, which is the
\* key of the base-65536 number of those 8 groups.
C7_ZipEqualsFull ==
    \A i \in DOMAIN arg :
        (src[i].fam = "v6" /\ src[i].zip /\ ret[i] # None) =>
            /\ ret[i] = ipToPaddedDecimal(Join(Expand(src[i]), <<":">>))
            /\ ret[i] = Return(KeyOf(Value(src[i])))

(***************************************************************************)
(* The service: lookupIP and lookupIPs (database.ts)                       *)
(***************************************************************************)
MaxBatch == 3       \* addresses in one lookupIPs call

\* Addresses of single lookups: 8.8.8.8, 8.8.8.255, 8.8.9.0, 1.1.1.1, 128.0.0.0,
\* 200.8.8.8, 255.255.255.255, ::1, not-an-ip and the other texts without ":".
NotAnIp == Raw(<<"n", "o", "t", "-", "a", "n", "-", "i", "p">>)

LookupAddrs ==
    { V4(<<8, 8, 8, 8>>), V4(<<8, 8, 8, 255>>), V4(<<8, 8, 9, 0>>), V4(<<1, 1, 1, 1>>),
      V4(<<128, 0, 0, 0>>), V4(<<200, 8, 8, 8>>), V4(<<255, 255, 255, 255>>),
      V6(<<>>, <<G1>>, TRUE), NotAnIp }
    \cup {Raw(t) : t \in {u \in RawTexts : ~Includes(u, <<":">>)}}

\* Addresses of batches: 8.8.8.8, not-an-ip and 1.1.1.1.
BatchAddrs == {V4(<<8, 8, 8, 8>>), NotAnIp, V4(<<1, 1, 1, 1>>)}

Batches == UNION {[1..n -> BatchAddrs] : n \in 0..MaxBatch}

\* The error a failing db.execute rejects with.
StoreError == Throw("LibsqlError", "unable to open database file")

\* The IPGeolocationResult lookupIP makes of a row.
Project(row) ==
    [ ip_from_dec |-> row.ip_from_dec, ip_to_dec |-> row.ip_to_dec,
      country_code |-> row.country_code ]

\* lookupIP up to its await: the key is computed, the client fetched and the
\* query issued; an address that does not encode is logged and rethrown, which
\* rejects the promise.
StartLookup(ip) ==
    LET paddedDecimal == ipToPaddedDecimal(ip)
    IN  IF paddedDecimal.kind = "throw"
        THEN [ip |-> ip, state |-> "rejected", key |-> <<>>, value |-> null,
              error |-> paddedDecimal]
        ELSE [ip |-> ip, state |-> "awaiting", key |-> paddedDecimal.val, value |-> null,
              error |-> None]

\* lookupIP that gives the row only to the first call and null to later ones.
ResumeLookupFirstOnly(task, resultRows) ==
    [task EXCEPT !.state = "fulfilled",
                 !.value = IF Len(resultRows) = 0 \/ log # <<>> THEN null
                           ELSE Project(resultRows[1])]

\* lookupIP after db.execute resolved with result.rows
ResumeLookup(task, resultRows) ==
    [task EXCEPT !.state = "fulfilled",
                 !.value = IF Len(resultRows) = 0 THEN null ELSE Project(resultRows[1])]

\* lookupIP after db.execute rejected: the error is logged and rethrown.
FailLookup(task, error) == [task EXCEPT !.state = "rejected", !.error = error]

\* createClient({ url }): the n-th client made in the process
createClient(n) == [kind |-> "client", id |-> n]

\* The module's variable client and the number of createClient calls so far.
Module(cl, n) == [client |-> cl, created |-> n]

\* getDatabase without its test of client: every call makes a client.
getDatabaseFresh(module) ==
    Module(createClient(module.created + 1), module.created + 1)

\* getDatabase: the module after the call; the call returns its client.
getDatabase(module) ==
    IF module.client = NoClient
    THEN Module(createClient(module.created + 1), module.created + 1)
    ELSE module

\* The module after k calls of getDatabase.
RECURSIVE AfterCalls(_, _)
AfterCalls(k, module) ==
    IF k = 0 THEN module
    ELSE LET Rest(m) == AfterCalls(k - 1, m)
         IN  Eager(Rest, getDatabase(module))

\* Every lookupIP that got a key calls getDatabase() before its query.
ModuleAfter(started) ==
    AfterCalls(Cardinality({i \in 1..Len(started) : started[i].state = "awaiting"}),
               Module(client, created))

ClientAfter(started) == ModuleAfter(started).client

CreatedAfter(started) == ModuleAfter(started).created

\* The values of the fulfilled promises only: rejected ones are left out.
FulfilledValues(ts) ==
    LET RECURSIVE From(_)
        From(i) == IF i > Len(ts) THEN <<>>
                   ELSE IF ts[i].state = "fulfilled" THEN <<ts[i].value>> \o From(i + 1)
                   ELSE From(i + 1)
    IN  From(1)

\* The values in the order the promises settled.
ValuesByCompletion(ts) ==
    [k \in 1..Len(ts) |->
        IF ts[settled[k]].state = "fulfilled" THEN ts[settled[k]].value ELSE null]

\* results.map(result => result.status === 'fulfilled' ? result.value : null)
SettledValues(ts) ==
    [i \in 1..Len(ts) |-> IF ts[i].state = "fulfilled" THEN ts[i].value ELSE null]

\* Promise.all in place of Promise.allSettled: a rejection rejects the whole.
lookupIPsFailFast(ts) ==
    LET rejected == {i \in 1..Len(ts) : ts[i].state = "rejected"}
    IN  IF rejected = {} THEN Return([i \in 1..Len(ts) |-> ts[i].value])
        ELSE ts[CHOOSE i \in rejected : \A j \in rejected : i <= j].error

\* What lookupIPs resolves with once Promise.allSettled has every result.
lookupIPsResult(ts) == Return(SettledValues(ts))

\* What the promise of lookupIP settles with.
lookupIPResult(task) ==
    IF task.state = "fulfilled" THEN Return(task.value) ELSE task.error

\* The indices of the lookups that threw before their await, in call order.
RejectedAtStart(started) ==
    SelectSeq([i \in 1..Len(started) |-> i], LAMBDA i : started[i].state = "rejected")

\* The stores batches run against: no range, or one.
BatchStores == {t \in Stores : Cardinality(t) <= 1}

Init ==
    /\ store \in BatchStores
    /\ ServiceIdle
    /\ src = <<>> /\ arg = <<>> /\ ret = <<>>
    /\ qkey = <<>> /\ rows = None

CallLookupIP(a) ==
    /\ call.op = "none"
    /\ call' = [op |-> "lookupIP", src |-> <<a>>, ips |-> <<Text(a)>>]
    /\ tasks' = <<StartLookup(call'.ips[1])>>
    /\ client' = ClientAfter(tasks')
    /\ created' = CreatedAfter(tasks')
    /\ settled' = RejectedAtStart(tasks')
    /\ UNCHANGED <<codecVars, store, queryVars, outcome, log, httpVars>>

\* ips.map(ip => lookupIP(ip)): every lookupIP runs to its await, in order,
\* before any query result arrives.
CallLookupIPs(as) ==
    /\ call.op = "none"
    /\ call' = [op |-> "lookupIPs", src |-> as, ips |-> [i \in 1..Len(as) |-> Text(as[i])]]
    /\ tasks' = [i \in 1..Len(as) |-> StartLookup(call'.ips[i])]
    /\ client' = ClientAfter(tasks')
    /\ created' = CreatedAfter(tasks')
    /\ settled' = RejectedAtStart(tasks')
    /\ UNCHANGED <<codecVars, store, queryVars, outcome, log, httpVars>>

ExecuteResolve(i) ==
    /\ tasks[i].state = "awaiting"
    /\ tasks' = [tasks EXCEPT ![i] = ResumeLookup(tasks[i], QueryRows(store, tasks[i].key))]
    /\ store' = TableAfterSelect(store, tasks[i].key)
    /\ settled' = Append(settled, i)
    /\ UNCHANGED <<codecVars, queryVars, client, created, call, outcome, log, httpVars>>

ExecuteReject(i) ==
    /\ tasks[i].state = "awaiting"
    /\ tasks' = [tasks EXCEPT ![i] = FailLookup(tasks[i], StoreError)]
    /\ settled' = Append(settled, i)
    /\ UNCHANGED <<codecVars, store, queryVars, client, created, call, outcome, log, httpVars>>

\* The caller's await resumes: of lookupIP when its promise settled, of
\* lookupIPs when every promise it started settled.
Settle ==
    /\ call.op # "none"
    /\ outcome = None
    /\ \A i \in 1..Len(tasks) : tasks[i].state # "awaiting"
    /\ outcome' = IF call.op = "lookupIP" THEN lookupIPResult(tasks[1])
                  ELSE lookupIPsResult(tasks)
    /\ UNCHANGED <<codecVars, store, queryVars, client, created, call, tasks, settled,
                   log, httpVars>>

Next ==
    \/ \E a \in LookupAddrs : CallLookupIP(a)
    \/ \E as \in Batches : CallLookupIPs(as)
    \/ \E i \in 1..Len(tasks) : ExecuteResolve(i)
    \/ \E i \in 1..Len(tasks) : ExecuteReject(i)
    \/ Settle

Spec == Init /\ [][Next]_vars

\* Single lookups against every store.
InitLookup ==
    /\ store \in Stores
    /\ ServiceIdle
    /\ src = <<>> /\ arg = <<>> /\ ret = <<>>
    /\ qkey = <<>> /\ rows = None

NextLookup ==
    \/ \E a \in LookupAddrs : CallLookupIP(a)
    \/ \E i \in 1..Len(tasks) : ExecuteResolve(i)
    \/ \E i \in 1..Len(tasks) : ExecuteReject(i)
    \/ Settle

SpecLookup == InitLookup /\ [][NextLookup]_vars

(***************************************************************************)
(* Properties of the service                                               *)
(***************************************************************************)
\* lookupIP run alone against a table whose query succeeds.
LookupAlone(table, ip) ==
    LET task == StartLookup(ip)
    IN  lookupIPResult(IF task.state = "rejected" THEN task
                       ELSE ResumeLookup(task, QueryRows(table, task.key)))

SingleDone == call.op = "lookupIP" /\ outcome # None
BatchDone == call.op = "lookupIPs" /\ outcome # None

\* C3: a lookupIP of a valid IPv4 address whose integer value lies inside a
\* stored range returns that range's attributes, provided the query itself
\* did not fail.
C3_IPv4InRangeMatched ==
    (SingleDone /\ call.src[1].fam = "v4" /\ outcome # StoreError) =>
        \A r \in store :
            LET v == BigToString(Value(call.src[1]))
            IN  (DecLeq(r.ip_from_dec, v) /\ DecLeq(v, r.ip_to_dec))
                    => outcome = Return(Project(r))

\* C8: the array lookupIPs resolves with is as long as its input, and its
\* element i is the outcome of the lookup started for input i, in whatever
\* order the lookups settled.
C8_ResultsFollowInput ==
    BatchDone =>
        /\ outcome.kind = "return"
        /\ Len(outcome.val) = Len(call.ips)
        /\ \A i \in 1..Len(call.ips) :
              /\ tasks[i].ip = call.ips[i]
              /\ outcome.val[i] = IF tasks[i].state = "fulfilled" THEN tasks[i].value ELSE null

\* Two lookups settled against the order of the input, with different outcomes.
C8_Witness ==
    /\ BatchDone
    /\ \E j, k \in 1..Len(settled) :
          /\ j < k /\ settled[j] > settled[k]
          /\ outcome.val[settled[j]] # outcome.val[settled[k]]

\* C9: in the outcome of a batch the entry of a malformed address differs
\* from the entry of a valid address no range covers (null).
C9_MalformedDistinctFromNotFound ==
    BatchDone =>
        \A i \in 1..Len(call.ips) : call.src[i].fam = "raw" => outcome.val[i] # null

\* C10: in a batch the entry of every well-formed address whose own query did
\* not fail is what lookupIP returns for that address alone against the same
\* table, and the batch is never aborted, whatever the other items are.
C10_ItemsIndependent ==
    BatchDone =>
        /\ outcome.kind = "return"
        /\ \A i \in 1..Len(call.ips) :
              (call.src[i].fam # "raw" /\ tasks[i].error # StoreError)
                  => Return(outcome.val[i]) = LookupAlone(store, call.ips[i])

\* A batch with a malformed item, an item whose query failed and a matched item.
C10_Witness ==
    /\ BatchDone
    /\ \E i, j, k \in 1..Len(call.ips) :
          /\ call.src[i].fam = "raw"
          /\ tasks[j].error = StoreError
          /\ call.src[k].fam # "raw" /\ outcome.val[k] # null

\* C11: the promise of lookupIPs never rejects: whatever mix of valid,
\* malformed and store-failing items the input holds, it fulfils with an
\* array of one entry per input.
C11_BatchNeverRejects ==
    BatchDone =>
        /\ outcome.kind # "throw"
        /\ DOMAIN outcome.val = 1..Len(call.ips)

\* A settled batch of three: a malformed item, a failed query and a fulfilled one.
C11_Witness ==
    /\ BatchDone /\ Len(call.ips) = 3
    /\ \E i, j, k \in 1..3 :
          /\ tasks[i].error.kind = "throw" /\ tasks[i].error # StoreError
          /\ tasks[j].error = StoreError
          /\ tasks[k].state = "fulfilled"

\* C12: a rejection of db.execute reaches the caller as that same error and
\* is never turned into the null of an address no range covers: lookupIP
\* rejects with it, and in lookupIPs the entry of such an item is not null.
C12_StoreFailureNotMasked ==
    /\ SingleDone => (tasks[1].error = StoreError => outcome = StoreError)
    /\ BatchDone =>
          \A i \in 1..Len(call.ips) : tasks[i].error = StoreError => outcome.val[i] # null

\* C13: text without ":" that is no dotted quad of four fields in 0..255
\* (too few or too many fields, a field above 255, text of neither family)
\* makes ipToPaddedDecimal throw the invalid-address error, and lookupIP
\* rejects with it without fetching the client or issuing a query.
C13_MalformedDottedRejected ==
    (call.op = "lookupIP" /\ call.src[1].fam = "raw" /\ ~Includes(call.ips[1], <<":">>)) =>
        /\ tasks[1].state = "rejected"
        /\ tasks[1].error = Throw("Error", "Invalid IP address format")
        /\ tasks[1].key = <<>>
        /\ created = 0
        /\ outcome # None => outcome = tasks[1].error

\* lookupIP("256.1.1.1") has rejected.
C13_Witness ==
    /\ SingleDone
    /\ call.ips[1] = <<"2", "5", "6", ".", "1", ".", "1", ".", "1">>
    /\ outcome.kind = "throw"

(***************************************************************************)
(* Properties of the codec on malformed colon text                         *)
(***************************************************************************)
\* The groups written in a colon-separated text.
ExplicitGroups(t) == SelectSeq(Split(t, <<":">>), LAMBDA g : g # <<>>)

\* A colon-separated text that does not stand for 8 groups: without "::" it
\* has fewer or more than 8 fields, with "::" it writes more than 8 groups.
WrongGroupCount(t) ==
    /\ Includes(t, <<":">>)
    /\ IF Includes(t, <<":", ":">>) THEN Len(ExplicitGroups(t)) > 8
       ELSE Len(Split(t, <<":">>)) # 8

\* C14: ipToPaddedDecimal throws for every colon-separated text that does
\* not stand for exactly 8 groups; none gets a key.
C14_WrongGroupCountRejected ==
    \A i \in DOMAIN arg :
        (WrongGroupCount(arg[i]) /\ ret[i] # None) => ret[i].kind = "throw"

\* C15: ipToPaddedDecimal throws for every text with more than one "::";
\* none gets a key.
C15_DoubleZipRejected ==
    \A i \in DOMAIN arg :
        (Len(Split(arg[i], <<":", ":">>)) > 2 /\ ret[i] # None) => ret[i].kind = "throw"

(***************************************************************************)
(* Boundaries of a range                                                   *)
(***************************************************************************)
\* The key of the integer after the one a decimal text denotes.
KeyAfter(dec) == KeyOf(BigAdd(DigitsToBig(dec, 10, 1, BigZero), BigOfNat(1)))

\* C17: on a table of non-overlapping ranges the key equal to the end of a
\* range gets that range, and the key equal to end + 1 gets no row when no
\* range starts at end + 1.
C17_BoundaryExact ==
    rows # None =>
        \A r \in store :
            /\ qkey = r.ip_to_padded => rows.val = <<r>>
            /\ (qkey = KeyAfter(r.ip_to_dec) /\ \A q \in store : q.ip_from_padded # qkey)
                  => rows.val = <<>>

\* The query ran with the key after the end of the lower of two ranges.
C17_Witness ==
    /\ rows # None /\ rows.val = <<>>
    /\ \E r, q \in store :
          /\ qkey = KeyAfter(r.ip_to_dec)
          /\ StrLess(qkey, q.ip_from_padded)

(***************************************************************************)
(* Repeated calls against an unchanged store                               *)
(***************************************************************************)
MaxCalls == 3       \* calls made one after the other

\* The calls repeated: lookupIP of 8.8.8.8 and of not-an-ip, lookupIPs of
\* [8.8.8.8, 8.8.8.8] and of [8.8.8.8, not-an-ip].
RepeatAddrs == {V4(<<8, 8, 8, 8>>), NotAnIp}

RepeatBatches == {<<V4(<<8, 8, 8, 8>>), V4(<<8, 8, 8, 8>>)>>, <<V4(<<8, 8, 8, 8>>), NotAnIp>>}

\* The caller's await got the outcome; the call is over and the module is
\* left with its client.
Finish ==
    /\ call.op # "none"
    /\ outcome # None
    /\ log' = Append(log, [op |-> call.op, ips |-> call.ips, outcome |-> outcome,
                           failed |-> \E i \in 1..Len(tasks) : tasks[i].error = StoreError])
    /\ call' = NoCall
    /\ tasks' = <<>>
    /\ settled' = <<>>
    /\ outcome' = None
    /\ UNCHANGED <<codecVars, store, queryVars, client, created, httpVars>>

NextRepeat ==
    \/ \E a \in RepeatAddrs : Len(log) < MaxCalls /\ CallLookupIP(a)
    \/ \E as \in RepeatBatches : Len(log) < MaxCalls /\ CallLookupIPs(as)
    \/ \E i \in 1..Len(tasks) : ExecuteResolve(i)
    \/ \E i \in 1..Len(tasks) : ExecuteReject(i)
    \/ Settle
    \/ Finish

SpecRepeat == Init /\ [][NextRepeat]_vars

C22_StoreReadOnly ==
    [][/\ store' = store
       /\ (/\ call.op = "none" /\ call'.op # "none"
           /\ \A i \in 1..Len(tasks') : tasks'[i].state = "rejected" /\ tasks'[i].key = <<>>)
              => /\ client' = client /\ created' = created
                 /\ log' = log /\ outcome' = outcome]_vars

\* Against a table with a range, three calls were completed: one matched the
\* range, one had its query fail and one had an address that did not encode.
C22_Witness ==
    /\ Len(log) = 3 /\ store # {}
    /\ \E i \in 1..3 : log[i].failed
    /\ \E i \in 1..3 : log[i].op = "lookupIP" /\ log[i].outcome.kind = "throw" /\ ~log[i].failed
    /\ \E i \in 1..3 : /\ log[i].op = "lookupIPs" /\ ~log[i].failed
                        /\ log[i].outcome.kind = "return" /\ log[i].outcome.val[1] # null

(***************************************************************************)
(* The database test script (testDatabase)                                 *)
(***************************************************************************)
\* const testIP = '8.8.8.8'
testIP == <<"8", ".", "8", ".", "8", ".", "8">>

\* const paddedDecimal = '0000000000000000000000000000000134744072':
\* 31 zeros and the nine digits of 134744072.
paddedDecimal == Repeat("0", 31) \o <<"1", "3", "4", "7", "4", "4", "0", "7", "2">>

\* The script is over after its lookup, or after the catch of a failed query.
ScriptDone == log # <<>> /\ log[Len(log)].op \in {"lookup", "failed"}

\* SELECT COUNT(*) as count FROM ip2location_db11_ipv6
TestCount ==
    /\ log = <<>>
    /\ log' = <<[op |-> "count", val |-> Cardinality(store)]>>
    /\ UNCHANGED <<codecVars, store, queryVars, client, created, call, tasks, settled,
                   outcome, httpVars>>

\* SELECT country_code, ... WHERE country_code IS NOT NULL LIMIT 5
TestSample ==
    /\ Len(log) = 1 /\ log[1].op = "count"
    /\ log' = Append(log, [op |-> "sample", val |-> {r \in store : r.country_code # NULL}])
    /\ UNCHANGED <<codecVars, store, queryVars, client, created, call, tasks, settled,
                   outcome, httpVars>>

\* The lookup query with args: [paddedDecimal, paddedDecimal]
TestLookup ==
    /\ Len(log) = 2 /\ log[2].op = "sample"
    /\ qkey' = paddedDecimal
    /\ rows' = Return(QueryRows(store, paddedDecimal))
    /\ store' = TableAfterSelect(store, paddedDecimal)
    /\ log' = Append(log, [op |-> "lookup", val |-> rows'.val])
    /\ UNCHANGED <<codecVars, client, created, call, tasks, settled, outcome, httpVars>>

\* A query rejects: catch (error) reports it and the script ends.
TestFail ==
    /\ ~ScriptDone
    /\ log' = Append(log, [op |-> "failed", val |-> StoreError])
    /\ UNCHANGED <<codecVars, store, queryVars, client, created, call, tasks, settled,
                   outcome, httpVars>>

InitScript ==
    /\ store \in Stores
    /\ ServiceIdle
    /\ src = <<>> /\ arg = <<>> /\ ret = <<>>
    /\ qkey = <<>> /\ rows = None

NextScript ==
    \/ TestCount
    \/ TestSample
    \/ TestLookup
    \/ TestFail

SpecScript == InitScript /\ [][NextScript]_vars

\* C23: the key the script binds to the lookup query for 8.8.8.8 is the
\* 39-character key ipToPaddedDecimal('8.8.8.8') returns, and the rows the
\* query gives are the stored ranges containing 134744072.
C23_ScriptUsesCanonicalKey ==
    (rows # None) =>
        /\ Len(qkey) = KeyWidth
        /\ qkey = ipToPaddedDecimal(testIP).val
        /\ {rows.val[i] : i \in 1..Len(rows.val)}
              = Containing(store, KeyOf(Value(V4(<<8, 8, 8, 8>>))))

(***************************************************************************)
(* The HTTP layer: middleware, routes and error handler (entrypoint.sh)    *)
(***************************************************************************)
MaxIpLength == 45       \* if (trimmedIP.length > 45)
MaxBatchIps == 100      \* if (ips.length > 100)

\* String.prototype.trim, for text padded with spaces.
Trim(t) ==
    LET ink == {i \in 1..Len(t) : t[i] # " "}
    IN  IF ink = {} THEN <<>>
        ELSE SubSeq(t, CHOOSE i \in ink : \A j \in ink : i <= j,
                       CHOOSE i \in ink : \A j \in ink : j <= i)

\* The classes of utils/exceptions: status and errorCode of each.
errorClasses ==
    { "APIKeyNotFound", "APISecretNotFound", "APIKeyInvalid", "APISecretInvalid",
      "PathNotFound", "ValidationError", "InvalidIPAddress", "IPNotFound" }

HandlerMessage(name) ==
    CASE name = "PathNotFound" -> "Not Found"
      [] name = "ValidationError" -> "Validation error"
      [] name = "InvalidIPAddress" -> "Invalid IP address"
      [] name = "IPNotFound" -> "IP address not found"
      [] OTHER -> "Unauthorized"

\* new handlers.<name>(c, ...)
HttpException(name) == Throw(name, HandlerMessage(name))

Response(status, errorCode, data) == [status |-> status, errorCode |-> errorCode, data |-> data]

\* err.getResponse() of a handlers class
ExceptionResponse(name) ==
    CASE name = "PathNotFound" -> Response(404, "PATH_NOT_FOUND", <<>>)
      [] name = "ValidationError" -> Response(422, "VALIDATION_ERROR", <<>>)
      [] name = "InvalidIPAddress" -> Response(400, "INVALID_IP_ADDRESS", <<>>)
      [] name = "IPNotFound" -> Response(404, "IP_NOT_FOUND", <<>>)
      [] name = "APIKeyNotFound" -> Response(401, "API_KEY_NOT_FOUND", <<>>)
      [] name = "APISecretNotFound" -> Response(401, "API_SECRET_NOT_FOUND", <<>>)
      [] name = "APIKeyInvalid" -> Response(401, "API_KEY_INVALID", <<>>)
      [] OTHER -> Response(401, "API_SECRET_INVALID", <<>>)

\* server.onError
onError(err) ==
    IF err.name \in errorClasses THEN ExceptionResponse(err.name)
    ELSE Response(500, "INTERNAL_ERROR", <<>>)

\* error.message.includes('Invalid IP address'), over the messages of the model
IncludesInvalidIP(message) == message \in {"Invalid IP address format", "Invalid IP address"}

\* extractAPIKeyAndSecret: c.req.header(...) || undefined, so a header sent
\* empty is as absent as one not sent.
extractAPIKeyAndSecret(headers) ==
    [key |-> IF headers.key = "empty" THEN "absent" ELSE headers.key,
     secret |-> IF headers.secret = "empty" THEN "absent" ELSE headers.secret]

\* validateAPICredentials with each header checked fully before the next
validateAPICredentialsKeyFirst(creds) ==
    IF creds.key = "absent" THEN HttpException("APIKeyNotFound")
    ELSE IF creds.key # "right" THEN HttpException("APIKeyInvalid")
    ELSE IF creds.secret = "absent" THEN HttpException("APISecretNotFound")
    ELSE IF creds.secret # "right" THEN HttpException("APISecretInvalid")
    ELSE None

\* validateAPICredentials: the exception it throws, or None when it calls next()
validateAPICredentials(creds) ==
    IF creds.key = "absent" THEN HttpException("APIKeyNotFound")
    ELSE IF creds.secret = "absent" THEN HttpException("APISecretNotFound")
    ELSE IF creds.key # "right" THEN HttpException("APIKeyInvalid")
    ELSE IF creds.secret # "right" THEN HttpException("APISecretInvalid")
    ELSE None

\* Requests.  A parameter is an address text, sent as written or with a
\* space on each side, or is absent; a batch body is unparsable, the JSON
\* null, or an object whose ips is missing, a string or an array of texts
\* (an element that is no string, such as a number, is an absent text).
Param(present, addr, spaced) == [present |-> present, addr |-> addr, spaced |-> spaced]
Body(kind, ipsKind, items) == [kind |-> kind, ipsKind |-> ipsKind, items |-> items]
Request(route, creds, param, body) ==
    [route |-> route, creds |-> creds, param |-> param, body |-> body]

NoParam == Param(FALSE, Raw(<<>>), FALSE)
NoBody == Body("none", "missing", <<>>)

\* The text sent for a parameter.
Sent(p) == IF p.spaced THEN <<" ">> \o Text(p.addr) \o <<" ">> ELSE Text(p.addr)

\* The X-API-Key and X-API-Secret headers: not sent, sent empty, sent with
\* another value than env.API_KEY or env.API_SECRET, or sent with that value.
Creds ==
    [key : {"absent", "empty", "wrong", "right"}, secret : {"absent", "empty", "wrong", "right"}]

\* 8.8.8.8, 1.1.1.1, not-an-ip, zz:zz, 1:1:1:1:1:1:1:1::1, the empty text and
\* texts of MaxIpLength and MaxIpLength + 1 characters.
HttpAddrs ==
    { V4(<<8, 8, 8, 8>>), V4(<<1, 1, 1, 1>>), NotAnIp, Raw(<<"z", "z", ":", "z", "z">>),
      Raw(<<"1", ":", "1", ":", "1", ":", "1", ":", "1", ":", "1", ":", "1", ":", "1", ":", ":", "1">>),
      Raw(<<>>), Raw(Repeat("1", MaxIpLength)), Raw(Repeat("1", MaxIpLength + 1)) }

Params == {Param(TRUE, a, sp) : a \in HttpAddrs, sp \in BOOLEAN}

ItemLists ==
    { <<>>,
      <<Param(TRUE, V4(<<8, 8, 8, 8>>), FALSE)>>,
      <<Param(TRUE, V4(<<8, 8, 8, 8>>), TRUE), Param(TRUE, NotAnIp, FALSE)>>,
      <<Param(TRUE, Raw(Repeat("1", MaxIpLength)), FALSE)>>,
      <<Param(TRUE, V4(<<1, 1, 1, 1>>), FALSE), Param(TRUE, Raw(Repeat("1", MaxIpLength + 1)), FALSE)>>,
      <<Param(TRUE, Raw(Repeat("1", MaxIpLength + 1)), TRUE), Param(TRUE, V4(<<8, 8, 8, 8>>), FALSE)>>,
      <<Param(TRUE, V4(<<8, 8, 8, 8>>), FALSE), Param(TRUE, Raw(Repeat("1", MaxIpLength)), TRUE)>>,
      <<NoParam, Param(TRUE, Raw(Repeat("1", MaxIpLength + 1)), FALSE)>>,
      [i \in 1..MaxBatchIps |-> Param(TRUE, NotAnIp, FALSE)],
      [i \in 1..(MaxBatchIps + 1) |-> Param(TRUE, NotAnIp, FALSE)] }

Bodies ==
    {Body("bad-json", "missing", <<>>), Body("null", "missing", <<>>),
     Body("object", "missing", <<>>), Body("object", "string", <<>>)}
    \cup {Body("object", "array", items) : items \in ItemLists}

Requests ==
    {Request(route, creds, NoParam, NoBody) : route \in {"GET /docs", "GET /health"}, creds \in Creds}
    \cup {Request("GET /ip/:ip", creds, p, NoBody) : creds \in Creds, p \in Params \ {Param(TRUE, Raw(<<>>), FALSE)}}
    \cup {Request("GET /lookup", creds, p, NoBody) : creds \in Creds, p \in Params \cup {NoParam}}
    \cup {Request("POST /ip/batch", creds, NoParam, b) : creds \in Creds, b \in Bodies}

\* What the middleware and the handler do up to the first await on a lookup:
\* they throw, respond, or start a call.
Thrown(ran, err) == [handled |-> ran, resp |-> onError(err), call |-> NoCall]
Responded(ran, response) == [handled |-> ran, resp |-> response, call |-> NoCall]
Started(ran, op, addrs, ips) ==
    [handled |-> ran, resp |-> None, call |-> [op |-> op, src |-> addrs, ips |-> ips]]

\* app.get('/ip/:ip') and app.get('/lookup') up to await lookupIP(trimmedIP);
\* they differ in the exception for a missing or blank ip.
SingleHandler(ran, p, blank) ==
    LET trimmedIP == Trim(Sent(p))
    IN  IF ~p.present \/ Sent(p) = <<>> \/ trimmedIP = <<>> THEN Thrown(ran, HttpException(blank))
        ELSE IF Len(trimmedIP) > MaxIpLength THEN Thrown(ran, HttpException("InvalidIPAddress"))
        ELSE Started(ran, "lookupIP", <<p.addr>>, <<trimmedIP>>)

\* ips.length >= 100 in place of ips.length > 100
BatchTooLargeFrom100(ips) == Len(ips) >= MaxBatchIps

\* ips.length > 100
BatchTooLarge(ips) == Len(ips) > MaxBatchIps

\* The map over ips that leaves out the elements that are too long.
validIPsSkipping(items) ==
    Return(SelectSeq([i \in 1..Len(items) |-> Trim(Sent(items[i]))],
                     LAMBDA t : Len(t) <= MaxIpLength))

\* const validIPs = ips.map(ip => ...): the map stops at the first element
\* that throws, a TypeError of ip.trim() for an element that is no string or
\* InvalidIPAddress for one whose trimmed text is too long.
validIPs(items) ==
    LET bad == {i \in 1..Len(items) :
                  ~items[i].present \/ Len(Trim(Sent(items[i]))) > MaxIpLength}
    IN  IF bad = {} THEN Return([i \in 1..Len(items) |-> Trim(Sent(items[i]))])
        ELSE LET first == CHOOSE i \in bad : \A j \in bad : i <= j
             IN  IF ~items[first].present
                 THEN Throw("TypeError", "ip.trim is not a function")
                 ELSE HttpException("InvalidIPAddress")

\* app.post('/ip/batch') up to await lookupIPs(validIPs)
BatchHandler(ran, body) ==
    IF body.kind = "bad-json" THEN Thrown(ran, HttpException("ValidationError"))
    ELSE IF body.kind = "null"
    THEN Thrown(ran, Throw("TypeError", "Cannot destructure property 'ips'"))
    ELSE IF body.ipsKind # "array" \/ Len(body.items) = 0
    THEN Thrown(ran, HttpException("ValidationError"))
    ELSE IF BatchTooLarge(body.items) THEN Thrown(ran, HttpException("ValidationError"))
    ELSE LET valid == validIPs(body.items)
         IN  IF valid.kind = "throw" THEN Thrown(ran, valid)
             ELSE Started(ran, "lookupIPs", [i \in 1..Len(body.items) |-> body.items[i].addr],
                          valid.val)

\* The routes in the order they are registered: /docs and /health come
\* before app.use("*", validateAPICredentials), the lookups after it.
Dispatch(r) ==
    IF r.route = "GET /docs" THEN Responded(<<"extractAPIKeyAndSecret", "docs">>, Response(200, "none", "docs"))
    ELSE IF r.route = "GET /health" THEN Responded(<<"extractAPIKeyAndSecret", "health">>, None)
    ELSE LET denied == validateAPICredentials(extractAPIKeyAndSecret(r.creds))
             ran == <<"extractAPIKeyAndSecret", "validateAPICredentials">>
         IN  IF denied # None THEN Thrown(ran, denied)
             ELSE IF r.route = "GET /ip/:ip"
             THEN SingleHandler(Append(ran, "ip"), r.param, "InvalidIPAddress")
             ELSE IF r.route = "GET /lookup"
             THEN SingleHandler(Append(ran, "lookup"), r.param, "ValidationError")
             ELSE BatchHandler(Append(ran, "batch"), r.body)

\* A request arrives and runs up to its first await: on db.execute in
\* /health, on lookupIP or lookupIPs in the lookup routes.
HttpRequest(r) ==
    /\ req = None
    /\ call.op = "none"
    /\ req' = r
    /\ handled' = Dispatch(r).handled
    /\ resp' = Dispatch(r).resp
    /\ call' = Dispatch(r).call
    /\ tasks' = [i \in 1..Len(call'.ips) |-> StartLookup(call'.ips[i])]
    /\ client' = IF r.route = "GET /health" THEN getDatabase(Module(client, created)).client
                 ELSE ClientAfter(tasks')
    /\ created' = IF r.route = "GET /health" THEN getDatabase(Module(client, created)).created
                  ELSE CreatedAfter(tasks')
    /\ settled' = RejectedAtStart(tasks')
    /\ UNCHANGED <<codecVars, store, queryVars, outcome, log>>

\* /health: db.execute('SELECT 1 as test') resolved
HealthResolve ==
    /\ req # None /\ req.route = "GET /health" /\ resp = None
    /\ resp' = Response(200, "none", "healthy")
    /\ UNCHANGED <<codecVars, store, queryVars, client, created, call, tasks, settled,
                   outcome, log, req, handled>>

\* /health: db.execute rejected
HealthReject ==
    /\ req # None /\ req.route = "GET /health" /\ resp = None
    /\ resp' = Response(503, "none", "unhealthy")
    /\ UNCHANGED <<codecVars, store, queryVars, client, created, call, tasks, settled,
                   outcome, log, req, handled>>

\* /ip/:ip and /lookup after await lookupIP: null becomes IPNotFound, thrown
\* inside the try; the catch turns an error whose message includes
\* 'Invalid IP address' into InvalidIPAddress and rethrows any other.
SingleResponse(ip, out) ==
    IF out.kind = "return" /\ out.val # null
    THEN Response(200, "none", [ip |-> ip, geolocation |-> out.val])
    ELSE LET error == IF out.kind = "return" THEN HttpException("IPNotFound") ELSE out
         IN  IF IncludesInvalidIP(error.message) THEN onError(HttpException("InvalidIPAddress"))
             ELSE onError(error)

\* /ip/batch after await lookupIPs: each trimmed text with its result
BatchResponse(ips, out) ==
    IF out.kind = "return"
    THEN Response(200, "none", [i \in 1..Len(ips) |-> [ip |-> ips[i], geolocation |-> out.val[i]]])
    ELSE onError(out)

Respond ==
    /\ req # None /\ resp = None
    /\ outcome # None
    /\ resp' = IF call.op = "lookupIP" THEN SingleResponse(call.ips[1], outcome)
               ELSE BatchResponse(call.ips, outcome)
    /\ UNCHANGED <<codecVars, store, queryVars, client, created, call, tasks, settled,
                   outcome, log, req, handled>>

NextHttp ==
    \/ \E r \in Requests : HttpRequest(r)
    \/ \E i \in 1..Len(tasks) : ExecuteResolve(i)
    \/ \E i \in 1..Len(tasks) : ExecuteReject(i)
    \/ Settle
    \/ Respond
    \/ HealthResolve
    \/ HealthReject

SpecHttp == Init /\ [][NextHttp]_vars

(***************************************************************************)
(* The shared client: lookups and health checks one after the other        *)
(***************************************************************************)
HealthCheckRequest == Request("GET /health", [key |-> "absent", secret |-> "absent"], NoParam, NoBody)

\* GET /health arrives, also while a lookup call awaits its queries: the
\* handler calls getDatabase() and awaits db.execute('SELECT 1 as test').
HealthCheck ==
    /\ req = None
    /\ Len(log) < MaxCalls
    /\ req' = HealthCheckRequest
    /\ handled' = Dispatch(req').handled
    /\ resp' = Dispatch(req').resp
    /\ client' = getDatabase(Module(client, created)).client
    /\ created' = getDatabase(Module(client, created)).created
    /\ UNCHANGED <<codecVars, store, queryVars, call, tasks, settled, outcome, log>>

\* The response of /health was sent; the request is over.
HealthFinish ==
    /\ req # None /\ resp # None
    /\ req' = None
    /\ handled' = <<>>
    /\ resp' = None
    /\ UNCHANGED <<codecVars, store, queryVars, client, created, call, tasks, settled,
                   outcome, log>>

NextHandle ==
    \/ \E a \in RepeatAddrs : Len(log) < MaxCalls /\ CallLookupIP(a)
    \/ \E as \in RepeatBatches : Len(log) < MaxCalls /\ CallLookupIPs(as)
    \/ \E i \in 1..Len(tasks) : ExecuteResolve(i)
    \/ \E i \in 1..Len(tasks) : ExecuteReject(i)
    \/ Settle
    \/ Finish
    \/ HealthCheck
    \/ HealthResolve
    \/ HealthReject
    \/ HealthFinish

SpecHandle == Init /\ [][NextHandle]_vars

\* C24: however single lookups, batches and health checks follow one another
\* or overlap, createClient is called at most once, and once getDatabase
\* has returned a client every later call returns that same client.
C24_ClientCreatedOnce ==
    /\ created = 0 /\ client = NoClient
    /\ [][/\ created' <= 1
          /\ (client # NoClient) => (client' = client /\ created' = created)
          /\ (client' # NoClient) => (client' = createClient(1) /\ created' = 1)]_vars

\* After a single lookup that found its range, a health check called
\* getDatabase while a batch awaited its two queries: four calls, one client.
C24_Witness ==
    /\ created = 1 /\ client = createClient(1)
    /\ req # None /\ req.route = "GET /health" /\ resp = None
    /\ \E i \in 1..Len(log) :
          /\ log[i].op = "lookupIP"
          /\ log[i].outcome.kind = "return" /\ log[i].outcome.val # null
    /\ call.op = "lookupIPs" /\ Len(tasks) = 2
    /\ \A i \in 1..Len(tasks) : tasks[i].state = "awaiting"

\* The first getDatabase call was the health check's, made before any lookup.
C24_WitnessHealthFirst ==
    /\ created = 1 /\ log = <<>> /\ call.op = "none"
    /\ req # None /\ req.route = "GET /health"

(***************************************************************************)
(* Properties of the HTTP layer                                            *)
(***************************************************************************)
Authenticated == req.creds.key = "right" /\ req.creds.secret = "right"

\* C16: for an authenticated GET /ip/{ip} or GET /lookup?ip= whose trimmed
\* text ipToPaddedDecimal throws for, the response is 400 INVALID_IP_ADDRESS
\* (never 500 INTERNAL_ERROR).
C16_EncodeFailureIs400 ==
    (/\ req # None /\ resp # None
     /\ req.route \in {"GET /ip/:ip", "GET /lookup"} /\ Authenticated
     /\ call.op = "lookupIP"
     /\ ipToPaddedDecimal(call.ips[1]).kind = "throw")
        => resp.status = 400 /\ resp.errorCode = "INVALID_IP_ADDRESS"

\* C19: a request to a route other than /health without valid X-API-Key and
\* X-API-Secret never has its handler run and is answered 401.
C19_AuthRequiredExceptHealth ==
    (req # None /\ req.route # "GET /health" /\ ~Authenticated) =>
        /\ handled = <<"extractAPIKeyAndSecret", "validateAPICredentials">>
        /\ resp # None /\ resp.status = 401
        /\ call = NoCall

\* The lengths of the texts of a batch body, as sent.
SentLengths(items) == {Len(Sent(items[i])) : i \in 1..Len(items)}

\* C20: an authenticated POST /ip/batch whose body is an object is answered
\* 422 VALIDATION_ERROR, with no lookup started, when ips is no array, is
\* empty or has more than 100 elements; and an array of 1..100 texts of at
\* most 45 characters is handed to lookupIPs, trimmed and in order.
C20_BatchSizeLimits ==
    (req # None /\ req.route = "POST /ip/batch" /\ Authenticated /\ req.body.kind = "object") =>
        LET items == req.body.items
        IN  /\ (req.body.ipsKind # "array" \/ Len(items) = 0 \/ Len(items) > 100) =>
                  /\ resp # None /\ resp.status = 422 /\ resp.errorCode = "VALIDATION_ERROR"
                  /\ call = NoCall /\ tasks = <<>>
            /\ (/\ req.body.ipsKind = "array" /\ Len(items) \in 1..100
                /\ \A i \in 1..Len(items) : items[i].present
                /\ \A n \in SentLengths(items) : n <= 45) =>
                  /\ call.op = "lookupIPs"
                  /\ call.ips = [i \in 1..Len(items) |-> Trim(Sent(items[i]))]
                  /\ Len(tasks) = Len(items)

\* A batch of 100 texts was looked up and answered.
C20_Witness ==
    /\ req # None /\ req.route = "POST /ip/batch"
    /\ Len(req.body.items) = 100
    /\ resp # None /\ resp.status = 200
    /\ call.op = "lookupIPs" /\ Len(outcome.val) = 100

\* C21: where validateAPICredentials runs, a request with no key is answered
\* API_KEY_NOT_FOUND, else one with no secret API_SECRET_NOT_FOUND, else one
\* with a wrong key API_KEY_INVALID, else one with a wrong secret
\* API_SECRET_INVALID, each with status 401; the route handler runs exactly
\* when the key is env.API_KEY and the secret is env.API_SECRET, and no
\* lookup is ever started for a request without both.
C21_CredentialsCheckedInOrder ==
    (req # None) =>
        LET c == extractAPIKeyAndSecret(req.creds)
            denied(code) ==
                /\ resp # None /\ resp.status = 401 /\ resp.errorCode = code
                /\ Len(handled) = 2
        IN  /\ (call.op # "none") => (c.key = "right" /\ c.secret = "right")
            /\ (\E i \in 1..Len(handled) : handled[i] = "validateAPICredentials") =>
                  /\ (c.key = "absent") => denied("API_KEY_NOT_FOUND")
                  /\ (c.key # "absent" /\ c.secret = "absent") => denied("API_SECRET_NOT_FOUND")
                  /\ (c.key = "wrong" /\ c.secret # "absent") => denied("API_KEY_INVALID")
                  /\ (c.key = "right" /\ c.secret = "wrong") => denied("API_SECRET_INVALID")
                  /\ (Len(handled) = 3) <=> (c.key = "right" /\ c.secret = "right")

\* A wrong key sent without a secret was answered API_SECRET_NOT_FOUND: the
\* missing secret is reported before the wrong key.
C21_Witness ==
    /\ req # None /\ req.route = "GET /ip/:ip"
    /\ req.creds.key = "wrong" /\ req.creds.secret = "empty"
    /\ resp # None /\ resp.errorCode = "API_SECRET_NOT_FOUND"

\* A request with both credentials right reached its handler and a lookup.
C21_WitnessPassed ==
    /\ req # None /\ req.route = "GET /lookup"
    /\ req.creds.key = "right" /\ req.creds.secret = "right"
    /\ handled = <<"extractAPIKeyAndSecret", "validateAPICredentials", "lookup">>
    /\ call.op = "lookupIP"

\* C25: an authenticated POST /ip/batch whose ips is an array of 1..100
\* strings, one of which is longer than 45 characters after trimming, is
\* answered 400 INVALID_IP_ADDRESS as a whole: lookupIPs is not called, no
\* lookup is started and the response carries no result for any element.
C25_LongItemRejectsBatch ==
    (/\ req # None /\ req.route = "POST /ip/batch" /\ Authenticated
     /\ req.body.kind = "object" /\ req.body.ipsKind = "array"
     /\ Len(req.body.items) \in 1..MaxBatchIps
     /\ \A i \in 1..Len(req.body.items) : req.body.items[i].present
     /\ \E i \in 1..Len(req.body.items) : Len(Trim(Sent(req.body.items[i]))) > MaxIpLength)
        => /\ resp # None /\ resp.status = 400 /\ resp.errorCode = "INVALID_IP_ADDRESS"
           /\ resp.data = <<>>
           /\ call = NoCall /\ tasks = <<>> /\ outcome = None
           /\ client = NoClient

\* The batch [1.1.1.1, a text of 46 characters] was rejected as a whole.
C25_Witness ==
    /\ req # None /\ req.route = "POST /ip/batch" /\ Authenticated
    /\ Len(req.body.items) = 2
    /\ req.body.items[1].present /\ Sent(req.body.items[1]) = Text(V4(<<1, 1, 1, 1>>))
    /\ req.body.items[2].present /\ Len(Trim(Sent(req.body.items[2]))) = MaxIpLength + 1
    /\ resp # None /\ resp.errorCode = "INVALID_IP_ADDRESS"
    /\ call = NoCall

\* A text of 45 characters sent with a space on each side passed the step.
C25_WitnessTrimmed ==
    /\ req # None /\ req.route = "POST /ip/batch"
    /\ call.op = "lookupIPs" /\ Len(call.ips) = 2
    /\ Len(Sent(req.body.items[2])) = MaxIpLength + 2 /\ Len(call.ips[2]) = MaxIpLength

=============================================================================
